---- MODULE Spec2Model ----
(***************************************************************************)
(* Model of hub-mirror (src/main.go): main() validates the request, logs   *)
(* in to the registry, starts one goroutine per non-empty source image     *)
(* (pull, tag, push, append to the shared slice `output`), joins them with *)
(* a sync.WaitGroup and renders the shell scripts with text/template.      *)
(*                                                                         *)
(* Strings are sequences of one-character strings, so that strings.Index,  *)
(* strings.Replace and the template's whitespace trimming are computed     *)
(* character by character.                                                 *)
(***************************************************************************)
EXTENDS Integers, Sequences, FiniteSets, TLC

\* Longest hub-mirror list of the explored requests.
MaxLen == 2

(***************************************************************************)
(* String helpers (package strings)                                        *)
(***************************************************************************)

\* s has sub at 0-based offset i.
HasPrefixAt(s, sub, i) ==
    /\ i >= 0
    /\ i + Len(sub) <= Len(s)
    /\ \A k \in 1..Len(sub) : s[i + k] = sub[k]

\* strings.Index: 0-based offset of the first occurrence of sub in s, or -1.
Index(s, sub) ==
    LET hits == { i \in 0..Len(s) : HasPrefixAt(s, sub, i) }
    IN  IF hits = {} THEN -1
        ELSE CHOOSE i \in hits : \A j \in hits : i <= j

\* strings.Replace(s, old, new, n) for non-empty old: the first n
\* non-overlapping occurrences are replaced, all of them when n < 0.
RECURSIVE Replace(_, _, _, _)
Replace(s, old, new, n) ==
    LET i == Index(s, old)
    IN  IF n = 0 \/ i = -1 THEN s
        ELSE SubSeq(s, 1, i) \o new
                \o Replace(SubSeq(s, i + Len(old) + 1, Len(s)), old, new, n - 1)

\* ReplaceAll that stops after the first occurrence.
ReplaceAll_First(s, old, new) == Replace(s, old, new, 1)

\* strings.ReplaceAll(s, old, new) = Replace(s, old, new, -1)
ReplaceAll(s, old, new) == Replace(s, old, new, -1)

\* The digest marker "@sha256" of lines 84 and 88.
DigestMarker == <<"@", "s", "h", "a", "2", "5", "6">>

\* The derivation removing every "@sha256" instead of the first.
Derive_StripAll(source, user) ==
    IF Index(source, DigestMarker) # -1
    THEN LET cleaned == ReplaceAll(source, DigestMarker, <<>>)
         IN  [Source |-> cleaned,
              Target |-> user \o <<"/">> \o ReplaceAll(cleaned, <<"/">>, <<".">>)]
    ELSE [Source |-> source,
          Target |-> user \o <<"/">> \o ReplaceAll(source, <<"/">>, <<".">>)]

\* The derivation without the assignment source = cleaned of line 89.
Derive_KeepSource(source, user) ==
    IF Index(source, DigestMarker) # -1
    THEN LET cleaned == Replace(source, DigestMarker, <<>>, 1)
         IN  [Source |-> source,
              Target |-> user \o <<"/">> \o ReplaceAll(cleaned, <<"/">>, <<".">>)]
    ELSE [Source |-> source,
          Target |-> user \o <<"/">> \o ReplaceAll(source, <<"/">>, <<".">>)]

\* Lines 84-93: the (possibly cleaned) source and the target of one entry.
Derive(source, user) ==
    IF Index(source, DigestMarker) # -1
    THEN LET cleaned == Replace(source, DigestMarker, <<>>, 1)
         IN  [Source |-> cleaned,
              Target |-> user \o <<"/">> \o ReplaceAll(cleaned, <<"/">>, <<".">>)]
    ELSE [Source |-> source,
          Target |-> user \o <<"/">> \o ReplaceAll(source, <<"/">>, <<".">>)]

(***************************************************************************)
(* Requests                                                                *)
(***************************************************************************)

\* Source references of the explored requests: an empty entry, a plain
\* name, a path, and a digest-qualified path.
SourceSet ==
    { <<>>,
      <<"n">>,
      <<"l", "/", "n">>,
      <<"r", "/", "i", "@", "s", "h", "a", "2", "5", "6", ":", "x">> }

\* hub-mirror lists of at most MaxLen entries.
ContentSet == UNION { [1..n -> SourceSet] : n \in 0..MaxLen }

\* --maxContent values: the longest list is over the smaller limit.
MaxContentSet == { MaxLen - 1, MaxLen }

\* --username / --password values: missing or present.
UserSet == { <<>>, <<"u">> }
PassSet == { <<>>, <<"p">> }

\* custom-registry values: absent or present.
RegistrySet == { <<>>, <<"m", ".", "i", "o">> }

(***************************************************************************)
(* text/template: the three script templates and their execution           *)
(***************************************************************************)

NL == <<"\n">>
SP == <<" ">>
DockerPull == <<"d", "o", "c", "k", "e", "r", " ", "p", "u", "l", "l", " ">>
DockerTag == <<"d", "o", "c", "k", "e", "r", " ", "t", "a", "g", " ">>
DockerPush == <<"d", "o", "c", "k", "e", "r", " ", "p", "u", "s", "h", " ">>
NerdctlPull ==
    <<"n", "e", "r", "d", "c", "t", "l", " ", "-", "n", " ",
      "k", "8", "s", ".", "i", "o", " ", "p", "u", "l", "l", " ">>
NerdctlTag ==
    <<"n", "e", "r", "d", "c", "t", "l", " ", "-", "n", " ",
      "k", "8", "s", ".", "i", "o", " ", "t", "a", "g", " ">>

\* A template is the sequence of its lexed items: literal text, and the
\* actions between {{ and }}; tl / tr record the trim markers "{{-" / "-}}".
Text(v) ==
    [k |-> "text", v |-> v, name |-> "", root |-> FALSE, tl |-> FALSE, tr |-> FALSE]
\* {{ range . }} when name = "", {{ range .name }} otherwise
Range(name, tl, tr) ==
    [k |-> "range", v |-> <<>>, name |-> name, root |-> FALSE, tl |-> tl, tr |-> tr]
\* {{ .name }}
Field(name) ==
    [k |-> "field", v |-> <<>>, name |-> name, root |-> FALSE, tl |-> FALSE, tr |-> FALSE]
\* {{ $.name }}
RootField(name) ==
    [k |-> "field", v |-> <<>>, name |-> name, root |-> TRUE, tl |-> FALSE, tr |-> FALSE]
End(tl, tr) ==
    [k |-> "end", v |-> <<>>, name |-> "", root |-> FALSE, tl |-> tl, tr |-> tr]

\* The base template closed with "{{- end -}}".
PullImagesTmpl_TrimEnd ==
    << Range("", TRUE, TRUE),
       Text(NL \o NL \o DockerPull), Field("Target"),
       Text(NL \o DockerTag), Field("Target"), Text(SP), Field("Source"),
       Text(NL \o NL),
       End(TRUE, TRUE) >>

\* Lines 148-153: template "pull_images".
PullImagesTmpl ==
    << Range("", TRUE, TRUE),
       Text(NL \o NL \o DockerPull), Field("Target"),
       Text(NL \o DockerTag), Field("Target"), Text(SP), Field("Source"),
       Text(NL \o NL),
       End(FALSE, TRUE) >>

\* The custom-registry template pushing the mirrored name.
CustomRegistryTmpl_PushTarget ==
    << Range("Output", TRUE, TRUE),
       Text(NL \o NL \o DockerTag), Field("Target"), Text(SP),
       RootField("CustomRegistry"), Text(<<"/">>), Field("Source"),
       Text(NL \o DockerPush), Field("Target"),
       Text(NL \o NL),
       End(FALSE, TRUE) >>

\* Lines 185-190: template "custom_registry".
CustomRegistryTmpl ==
    << Range("Output", TRUE, TRUE),
       Text(NL \o NL \o DockerTag), Field("Target"), Text(SP),
       RootField("CustomRegistry"), Text(<<"/">>), Field("Source"),
       Text(NL \o DockerPush), RootField("CustomRegistry"), Text(<<"/">>),
       Field("Source"),
       Text(NL \o NL),
       End(FALSE, TRUE) >>

\* The custom-registry branch given the body of the else branch's template.
NerdctlCustomTmpl_Target ==
    << Range("Output", TRUE, TRUE),
       Text(NL \o NL \o NerdctlPull), Field("Target"),
       Text(NL \o NerdctlTag), Field("Target"), Text(SP), Field("Source"),
       Text(NL \o NL),
       End(FALSE, TRUE) >>

\* Lines 209-214: template "nerdctl" of the custom-registry branch.
NerdctlCustomTmpl ==
    << Range("Output", TRUE, TRUE),
       Text(NL \o NL \o NerdctlPull), RootField("CustomRegistry"), Text(<<"/">>),
       Field("Source"),
       Text(NL \o NerdctlTag), RootField("CustomRegistry"), Text(<<"/">>),
       Field("Source"), Text(SP), Field("Source"),
       Text(NL \o NL),
       End(FALSE, TRUE) >>

\* Lines 233-238: template "nerdctl" of the else branch.
NerdctlTmpl ==
    << Range("Output", TRUE, TRUE),
       Text(NL \o NL \o NerdctlPull), Field("Target"),
       Text(NL \o NerdctlTag), Field("Target"), Text(SP), Field("Source"),
       Text(NL \o NL),
       End(FALSE, TRUE) >>

\* The white space a trim marker removes.
IsSpace(c) == c \in {" ", "\t", "\r", "\n"}

RECURSIVE TrimLeft(_)
TrimLeft(s) ==
    IF s # <<>> /\ IsSpace(Head(s)) THEN TrimLeft(Tail(s)) ELSE s

RECURSIVE TrimRight(_)
TrimRight(s) ==
    IF s # <<>> /\ IsSpace(s[Len(s)])
    THEN TrimRight(SubSeq(s, 1, Len(s) - 1)) ELSE s

\* Parse: a text item loses its leading white space after an action that
\* ends in "-}}" and its trailing white space before one that starts "{{-".
Parse(items) ==
    [ i \in 1..Len(items) |->
        IF items[i].k # "text" THEN items[i]
        ELSE LET a == IF i > 1 /\ items[i - 1].tr
                      THEN TrimLeft(items[i].v) ELSE items[i].v
                 b == IF i < Len(items) /\ items[i + 1].tl
                      THEN TrimRight(a) ELSE a
             IN  Text(b) ]

\* The values templates are executed with: strings, slices and structs.
StrVal(s) == [kind |-> "string", chars |-> s, elems |-> <<>>, fields |-> <<>>]
SliceVal(es) == [kind |-> "slice", chars |-> <<>>, elems |-> es, fields |-> <<>>]
StructVal(fs) == [kind |-> "struct", chars |-> <<>>, elems |-> <<>>, fields |-> fs]

\* One element of `output`: struct { Source string; Target string }.
RecordVal(r) ==
    StructVal([ f \in {"Source", "Target"} |->
                  IF f = "Source" THEN StrVal(r.Source) ELSE StrVal(r.Target) ])

\* `output` as passed to Execute at lines 157 and 244.
OutputVal(out) == SliceVal([ i \in 1..Len(out) |-> RecordVal(out[i]) ])

\* customData of lines 172-175.
CustomDataVal(out, registry) ==
    StructVal([ f \in {"Output", "CustomRegistry"} |->
                  IF f = "Output" THEN OutputVal(out) ELSE StrVal(registry) ])

\* Field access succeeds on a struct that has the field and on nothing else
\* ("can't evaluate field X in type T" otherwise).
HasField(val, name) == val.kind = "struct" /\ name \in DOMAIN val.fields

\* Items lo..hi executed with the given dot and $: the text written, and
\* whether execution stopped with an error.
RECURSIVE EvalItems(_, _, _, _, _)
EvalItems(items, lo, hi, dot, root) ==
    IF lo > hi THEN [err |-> FALSE, out |-> <<>>]
    ELSE LET it == items[lo]
             base == IF it.root THEN root ELSE dot
         IN  IF it.k = "text"
             THEN [EvalItems(items, lo + 1, hi, dot, root)
                      EXCEPT !.out = it.v \o @]
             ELSE IF ~HasField(base, it.name)
             THEN [err |-> TRUE, out |-> <<>>]
             ELSE [EvalItems(items, lo + 1, hi, dot, root)
                      EXCEPT !.out = base.fields[it.name].chars \o @]

\* The body lo..hi of a range executed for elements i.. of elems.
RECURSIVE EvalRange(_, _, _, _, _, _)
EvalRange(items, lo, hi, elems, i, root) ==
    IF i > Len(elems) THEN [err |-> FALSE, out |-> <<>>]
    ELSE LET one == EvalItems(items, lo, hi, elems[i], root)
         IN  IF one.err THEN one
             ELSE [EvalRange(items, lo, hi, elems, i + 1, root)
                      EXCEPT !.out = one.out \o @]

\* Template.Execute(file, data): what is written to the file and whether
\* an error is returned.  The templates have one range ... end.
Execute(tmpl, data) ==
    LET items == Parse(tmpl)
        r == CHOOSE i \in 1..Len(items) : items[i].k = "range"
        e == CHOOSE i \in 1..Len(items) : items[i].k = "end"
        pre == EvalItems(items, 1, r - 1, data, data)
        okColl == items[r].name = "" \/ HasField(data, items[r].name)
        coll == IF items[r].name = "" THEN data ELSE data.fields[items[r].name]
    IN  IF pre.err THEN pre
        ELSE IF ~okColl THEN [err |-> TRUE, out |-> pre.out]
        ELSE IF coll.kind # "slice" THEN [err |-> TRUE, out |-> pre.out]
        ELSE LET body == EvalRange(items, r + 1, e - 1, coll.elems, 1, data)
             IN  IF body.err THEN [err |-> TRUE, out |-> pre.out \o body.out]
                 ELSE LET post == EvalItems(items, e + 1, Len(items), data, data)
                      IN  [err |-> post.err,
                           out |-> pre.out \o body.out \o post.out]

(***************************************************************************)
(* State                                                                   *)
(***************************************************************************)

VARIABLES
    content,            \* hubMirrors.Content
    customRegistry,     \* hubMirrors.CustomRegistry
    maxContent,         \* *maxContent
    username,           \* *username
    password,           \* *password
    mainPC,             \* position of main()
    mainPanic,          \* the value main() panicked with, "" if it did not
    idx,                \* next entry of the dispatch loop (1-based)
    loginCalls,         \* number of cli.RegistryLogin calls made
    loginResult,        \* what RegistryLogin returned: "none", "ok", "error"
    workers,            \* the goroutines started at line 96, in start order
    wg,                 \* counter of the sync.WaitGroup
    output,             \* the shared slice `output`
    outputFile,         \* file at *outputPath
    customRegistryFile, \* file at *customRegistryPath
    nerdctlFile,        \* file at *nerdctlPath
    exit                \* "running", or how the process ended

vars ==
    << content, customRegistry, maxContent, username, password, mainPC,
       mainPanic, idx, loginCalls, loginResult, workers, wg, output,
       outputFile, customRegistryFile, nerdctlFile, exit >>

inputs == << content, customRegistry, maxContent, username, password >>
login == << loginCalls, loginResult >>
files == << outputFile, customRegistryFile, nerdctlFile >>

\* A path at which nothing has been created / a file just created (os.Create
\* truncates) / a file after the given text was written to it.
NoFile == [exists |-> FALSE, data |-> <<>>]
EmptyFile == [exists |-> TRUE, data |-> <<>>]
Written(f, text) == [exists |-> TRUE, data |-> f.data \o text]

Init ==
    /\ content \in ContentSet
    /\ customRegistry \in RegistrySet
    /\ maxContent \in MaxContentSet
    /\ username \in UserSet
    /\ password \in PassSet
    /\ mainPC = "unmarshal"
    /\ mainPanic = ""
    /\ idx = 1
    /\ loginCalls = 0
    /\ loginResult = "none"
    /\ workers = <<>>
    /\ wg = 0
    /\ output = <<>>
    /\ outputFile = NoFile
    /\ customRegistryFile = NoFile
    /\ nerdctlFile = NoFile
    /\ exit = "running"

\* main() moves from pc `from` to pc `to`.
MainStep(from, to) ==
    /\ exit = "running"
    /\ mainPC = from
    /\ mainPC' = to
    /\ mainPanic' = mainPanic

\* main() panics at pc `from` with the given value.
MainPanic(from, value) ==
    /\ exit = "running"
    /\ mainPC = from
    /\ mainPC' = "panicked"
    /\ mainPanic' = value

\* The panic values of main(): the three messages of lines 43, 55 and 137,
\* and the errors returned by the calls main() makes.
TooLongMsg == "content is too long."
CredentialsMsg == "username or password cannot be empty."
EmptyMsg == "output is empty."
UnmarshalErr == "json.Unmarshal error"
ClientErr == "client.NewClientWithOpts error"
LoginErr == "RegistryLogin error"
CreateErr == "os.Create error"
ExecuteErr == "template Execute error"

(***************************************************************************)
(* main(): validation and login, lines 38-69                               *)
(***************************************************************************)

\* Lines 38-41: json.Unmarshal; malformed JSON panics.
Unmarshal ==
    /\ \E ok \in BOOLEAN :
          IF ok THEN MainStep("unmarshal", "checkCount")
          ELSE MainPanic("unmarshal", UnmarshalErr)
    /\ UNCHANGED << inputs, idx, login, workers, wg, output, files, exit >>

\* Line 42: the condition of the "content is too long." panic.
TooLong(list, max) == Len(list) > max

\* Lines 42-44.
CheckCount ==
    /\ IF TooLong(content, maxContent)
       THEN MainPanic("checkCount", TooLongMsg)
       ELSE MainStep("checkCount", "newClient")
    /\ UNCHANGED << inputs, idx, login, workers, wg, output, files, exit >>

\* Lines 48-51: client.NewClientWithOpts builds the client from the
\* environment; it contacts no registry.
NewClient ==
    /\ \E ok \in BOOLEAN :
          IF ok THEN MainStep("newClient", "checkCreds")
          ELSE MainPanic("newClient", ClientErr)
    /\ UNCHANGED << inputs, idx, login, workers, wg, output, files, exit >>

\* The credential check with && in place of ||.
MissingCredentials_Both(user, pass) == user = <<>> /\ pass = <<>>

\* Line 54: the condition of the "username or password cannot be empty."
\* panic.
MissingCredentials(user, pass) == user = <<>> \/ pass = <<>>

\* Lines 54-56.
CheckCredentials ==
    /\ IF MissingCredentials(username, password)
       THEN MainPanic("checkCreds", CredentialsMsg)
       ELSE MainStep("checkCreds", "login")
    /\ UNCHANGED << inputs, idx, login, workers, wg, output, files, exit >>

\* The error of RegistryLogin left unchecked.
LoginFailed_Ignored(res) == FALSE

\* Line 67: err != nil for the value RegistryLogin returned.
LoginFailed(res) == res # "ok"

\* Lines 66-69: cli.RegistryLogin, which the registry accepts or rejects.
Login ==
    /\ \E res \in {"ok", "error"} :
          /\ loginResult' = res
          /\ IF LoginFailed(res) THEN MainPanic("login", LoginErr)
             ELSE MainStep("login", "dispatch")
    /\ loginCalls' = loginCalls + 1
    /\ UNCHANGED << inputs, idx, workers, wg, output, files, exit >>

(***************************************************************************)
(* main(): the dispatch loop and the join, lines 79-134                    *)
(***************************************************************************)

\* The loop without the check of line 80.
SkipEntry_Never(source) == FALSE

\* Line 80: the entry is skipped.
SkipEntry(source) == source = <<>>

\* The goroutine started at line 96 for entry i with the arguments
\* (source, target); calls lists the registry calls it has made so far,
\* failed names the call that returned an error ("" when none did) and
\* snap is the value of `output` it loaded at line 126.
NewWorker(i, d) ==
    [entry |-> i, source |-> d.Source, target |-> d.Target,
     pc |-> "start", calls |-> <<>>, failed |-> "", snap |-> <<>>]

\* Lines 79-132: one iteration of the loop over hubMirrors.Content.
Dispatch ==
    /\ exit = "running"
    /\ mainPC = "dispatch"
    /\ idx <= Len(content)
    /\ IF SkipEntry(content[idx])
       THEN UNCHANGED << workers, wg >>
       ELSE /\ workers' =
                  Append(workers, NewWorker(idx, Derive(content[idx], username)))
            /\ wg' = wg + 1
    /\ idx' = idx + 1
    /\ UNCHANGED << inputs, mainPC, mainPanic, login, output, files, exit >>

\* A join that does not block: wg.Wait() left out.
WaitReleased_NoWait(counter) == TRUE

\* wg.Wait() returns when the counter is zero.
WaitReleased(counter) == counter = 0

\* Line 134: the loop is over and wg.Wait() returns.
WgWait ==
    /\ idx > Len(content)
    /\ WaitReleased(wg)
    /\ MainStep("dispatch", "checkEmpty")
    /\ UNCHANGED << inputs, idx, login, workers, wg, output, files, exit >>

(***************************************************************************)
(* The goroutine of lines 96-131                                           *)
(***************************************************************************)

\* Worker i is at pc `from`, and the process is alive.
At(i, from) ==
    /\ exit = "running"
    /\ i \in 1..Len(workers)
    /\ workers[i].pc = from

\* A registry call whose error does not stop the goroutine.
RegistryCall_IgnoreError(i, from, call, to) ==
    /\ At(i, from)
    /\ \E ok \in BOOLEAN :
          workers' = [workers EXCEPT
                         ![i].pc = to,
                         ![i].calls = Append(@, call),
                         ![i].failed = IF ok THEN @ ELSE call]
    /\ UNCHANGED << inputs, mainPC, mainPanic, idx, login, wg, output, files, exit >>

\* Worker i makes the registry call `call`; it continues at `to` when the
\* call returns no error and panics otherwise (lines 104-106, 112-114,
\* 120-122).
RegistryCall(i, from, call, to) ==
    /\ At(i, from)
    /\ \E ok \in BOOLEAN :
          workers' = [workers EXCEPT
                         ![i].pc = IF ok THEN to ELSE "panicking",
                         ![i].calls = Append(@, call),
                         ![i].failed = IF ok THEN @ ELSE call]
    /\ UNCHANGED << inputs, mainPC, mainPanic, idx, login, wg, output, files, exit >>

\* Lines 103-108: cli.ImagePull(ctx, source).
Pull(i) == RegistryCall(i, "start", "pull", "pulled")

\* The tag made without waiting for the pull.
Tag_BeforePull(i) == RegistryCall(i, "start", "tag", "tagged")

\* Lines 111-114: cli.ImageTag(ctx, source, target).
Tag(i) == RegistryCall(i, "pulled", "tag", "tagged")

\* Lines 117-124: cli.ImagePush(ctx, target).
Push(i) == RegistryCall(i, "tagged", "push", "pushed")

\* Line 126-129, first half: append() reads the shared slice `output`.
\* Nothing orders this read against the other goroutines' stores.
AppendLoad(i) ==
    /\ At(i, "pushed")
    /\ workers' = [workers EXCEPT ![i].pc = "loaded", ![i].snap = output]
    /\ UNCHANGED << inputs, mainPC, mainPanic, idx, login, wg, output, files, exit >>

\* The record of lines 126-129.
RecordOf(w) == [Source |-> w.source, Target |-> w.target]

\* Lines 126-129, second half: the slice that append() built from the value
\* read is stored to `output`.
AppendStore(i) ==
    /\ At(i, "loaded")
    /\ output' = Append(workers[i].snap, RecordOf(workers[i]))
    /\ workers' = [workers EXCEPT ![i].pc = "completed"]
    /\ UNCHANGED << inputs, mainPC, mainPanic, idx, login, wg, files, exit >>

\* A return that leaves the counter alone.
WorkerReturn_NoDone(i) ==
    /\ At(i, "completed")
    /\ workers' = [workers EXCEPT ![i].pc = "returned"]
    /\ wg' = wg
    /\ UNCHANGED << inputs, mainPC, mainPanic, idx, login, output, files, exit >>

\* Lines 130-131 and 97: the function returns and the deferred wg.Done()
\* runs.
WorkerReturn(i) ==
    /\ At(i, "completed")
    /\ workers' = [workers EXCEPT ![i].pc = "returned"]
    /\ wg' = wg - 1
    /\ UNCHANGED << inputs, mainPC, mainPanic, idx, login, output, files, exit >>

\* Line 97 on the panic path: the panicking goroutine runs its deferred
\* wg.Done() before the runtime ends the process.
PanicDone(i) ==
    /\ At(i, "panicking")
    /\ workers' = [workers EXCEPT ![i].pc = "fatal"]
    /\ wg' = wg - 1
    /\ UNCHANGED << inputs, mainPC, mainPanic, idx, login, output, files, exit >>

\* An unrecovered panic, of main() or of a goroutine whose deferred calls
\* have run, ends the process; until then the other goroutines keep running.
FatalExit ==
    /\ exit = "running"
    /\ \/ mainPC = "panicked"
       \/ \E i \in 1..Len(workers) : workers[i].pc = "fatal"
    /\ exit' = "panic"
    /\ UNCHANGED << inputs, mainPC, mainPanic, idx, login, workers, wg, output, files >>

(***************************************************************************)
(* main(): script generation, lines 136-250                                *)
(***************************************************************************)

\* The empty check left out.
OutputEmpty_Never(out) == FALSE

\* Line 136: the condition of the "output is empty." panic.
OutputEmpty(out) == Len(out) = 0

\* Lines 136-138.
CheckEmpty ==
    /\ IF OutputEmpty(output)
       THEN MainPanic("checkEmpty", EmptyMsg)
       ELSE MainStep("checkEmpty", "createOutput")
    /\ UNCHANGED << inputs, idx, login, workers, wg, output, files, exit >>

\* Lines 141-144: os.Create(*outputPath).
CreateOutput ==
    /\ \E ok \in BOOLEAN :
          IF ok THEN /\ MainStep("createOutput", "execOutput")
                     /\ outputFile' = EmptyFile
          ELSE /\ MainPanic("createOutput", CreateErr)
               /\ outputFile' = outputFile
    /\ UNCHANGED << inputs, idx, login, workers, wg, output,
                    customRegistryFile, nerdctlFile, exit >>

\* Line 163: the branch taken after the base script.
AfterOutput(registry) ==
    IF registry # <<>> THEN "createCustom" ELSE "createNerdctl"

\* Lines 157-163: the base template is executed with `output`; then main()
\* branches on hubMirrors.CustomRegistry.
ExecOutput ==
    /\ mainPC = "execOutput"
    /\ LET res == Execute(PullImagesTmpl, OutputVal(output))
       IN  /\ IF res.err THEN MainPanic("execOutput", ExecuteErr)
              ELSE MainStep("execOutput", AfterOutput(customRegistry))
           /\ outputFile' = Written(outputFile, res.out)
           /\ UNCHANGED << inputs, idx, login, workers, wg, output,
                           customRegistryFile, nerdctlFile, exit >>

\* Lines 178-181: os.Create(*customRegistryPath).
CreateCustom ==
    /\ \E ok \in BOOLEAN :
          IF ok THEN /\ MainStep("createCustom", "execCustom")
                     /\ customRegistryFile' = EmptyFile
          ELSE /\ MainPanic("createCustom", CreateErr)
               /\ customRegistryFile' = customRegistryFile
    /\ UNCHANGED << inputs, idx, login, workers, wg, output,
                    outputFile, nerdctlFile, exit >>

\* Lines 196-199: the custom-registry template is executed with customData.
ExecCustom ==
    /\ mainPC = "execCustom"
    /\ LET res == Execute(CustomRegistryTmpl, CustomDataVal(output, customRegistry))
       IN  /\ IF res.err THEN MainPanic("execCustom", ExecuteErr)
              ELSE MainStep("execCustom", "createNerdctlCustom")
           /\ customRegistryFile' = Written(customRegistryFile, res.out)
           /\ UNCHANGED << inputs, idx, login, workers, wg, output,
                           outputFile, nerdctlFile, exit >>

\* Lines 202-205: os.Create(*nerdctlPath) in the custom-registry branch.
CreateNerdctlCustom ==
    /\ \E ok \in BOOLEAN :
          IF ok THEN /\ MainStep("createNerdctlCustom", "execNerdctlCustom")
                     /\ nerdctlFile' = EmptyFile
          ELSE /\ MainPanic("createNerdctlCustom", CreateErr)
               /\ nerdctlFile' = nerdctlFile
    /\ UNCHANGED << inputs, idx, login, workers, wg, output,
                    outputFile, customRegistryFile, exit >>

\* Lines 220-223: the nerdctl template of the custom-registry branch is
\* executed with customData.
ExecNerdctlCustom ==
    /\ mainPC = "execNerdctlCustom"
    /\ LET res == Execute(NerdctlCustomTmpl, CustomDataVal(output, customRegistry))
       IN  /\ IF res.err THEN MainPanic("execNerdctlCustom", ExecuteErr)
              ELSE MainStep("execNerdctlCustom", "print")
           /\ nerdctlFile' = Written(nerdctlFile, res.out)
           /\ UNCHANGED << inputs, idx, login, workers, wg, output,
                           outputFile, customRegistryFile, exit >>

\* Lines 226-229: os.Create(*nerdctlPath) in the else branch.
CreateNerdctl ==
    /\ \E ok \in BOOLEAN :
          IF ok THEN /\ MainStep("createNerdctl", "execNerdctl")
                     /\ nerdctlFile' = EmptyFile
          ELSE /\ MainPanic("createNerdctl", CreateErr)
               /\ nerdctlFile' = nerdctlFile
    /\ UNCHANGED << inputs, idx, login, workers, wg, output,
                    outputFile, customRegistryFile, exit >>

\* Lines 244-247: the nerdctl template of the else branch is executed with
\* `output` itself.
ExecNerdctl ==
    /\ mainPC = "execNerdctl"
    /\ LET res == Execute(NerdctlTmpl, OutputVal(output))
       IN  /\ IF res.err THEN MainPanic("execNerdctl", ExecuteErr)
              ELSE MainStep("execNerdctl", "print")
           /\ nerdctlFile' = Written(nerdctlFile, res.out)
           /\ UNCHANGED << inputs, idx, login, workers, wg, output,
                           outputFile, customRegistryFile, exit >>

\* Lines 250-251: main() prints `output` and returns; the process ends with
\* status 0 whatever the goroutines are doing.
MainReturn ==
    /\ MainStep("print", "returned")
    /\ exit' = "ok"
    /\ UNCHANGED << inputs, idx, login, workers, wg, output, files >>

Next ==
    \/ Unmarshal
    \/ CheckCount
    \/ NewClient
    \/ CheckCredentials
    \/ Login
    \/ Dispatch
    \/ WgWait
    \/ \E i \in 1..Len(workers) : Pull(i)
    \/ \E i \in 1..Len(workers) : Tag(i)
    \/ \E i \in 1..Len(workers) : Push(i)
    \/ \E i \in 1..Len(workers) : AppendLoad(i)
    \/ \E i \in 1..Len(workers) : AppendStore(i)
    \/ \E i \in 1..Len(workers) : WorkerReturn(i)
    \/ \E i \in 1..Len(workers) : PanicDone(i)
    \/ FatalExit
    \/ CheckEmpty
    \/ CreateOutput
    \/ ExecOutput
    \/ CreateCustom
    \/ ExecCustom
    \/ CreateNerdctlCustom
    \/ ExecNerdctlCustom
    \/ CreateNerdctl
    \/ ExecNerdctl
    \/ MainReturn

Spec == Init /\ [][Next]_vars

\* The runs in which the process keeps taking steps while it has one to
\* take: every client call returns and the scheduler runs a goroutine that
\* is able to run.
FairSpec == Spec /\ WF_vars(Next)

(***************************************************************************)
(* The name derivation of lines 84-93 on a wider range of sources          *)
(***************************************************************************)

\* Longest source reference of the derivation runs, in pieces.
MaxPieces == 3

\* The pieces the source references are put together from: a name
\* character, the path separator, the digest marker and its two halves.
Pieces ==
    { <<"a">>, <<"/">>, <<"@", "s", "h", "a", "2", "5", "6">>,
      <<"@", "s", "h", "a">>, <<"2", "5", "6">> }

RECURSIVE Concat(_)
Concat(ps) == IF ps = <<>> THEN <<>> ELSE Head(ps) \o Concat(Tail(ps))

\* Source references of at most MaxPieces pieces, the empty one included.
DeriveSources ==
    { Concat(ps) : ps \in UNION { [1..n -> Pieces] : n \in 0..MaxPieces } }

\* Destination namespaces (--username).
NamespaceSet == { <<"u">>, <<"a", "l">> }

\* main() at line 79, after a successful login, with one source entry.
DeriveInit ==
    /\ content \in { <<src>> : src \in DeriveSources }
    /\ customRegistry = <<>>
    /\ maxContent = 1
    /\ username \in NamespaceSet
    /\ password = <<"p">>
    /\ mainPC = "dispatch"
    /\ mainPanic = ""
    /\ idx = 1
    /\ loginCalls = 1
    /\ loginResult = "ok"
    /\ workers = <<>>
    /\ wg = 0
    /\ output = <<>>
    /\ outputFile = NoFile
    /\ customRegistryFile = NoFile
    /\ nerdctlFile = NoFile
    /\ exit = "running"

\* The loop iteration that derives the names and starts the goroutine.
DeriveNext == Dispatch

DeriveSpec == DeriveInit /\ [][DeriveNext]_vars


(***************************************************************************)
(* Properties                                                              *)
(***************************************************************************)

\* The positions of main() before wg.Wait() has returned.
PreJoin ==
    {"unmarshal", "checkCount", "newClient", "checkCreds", "login", "dispatch"}

\* wg.Wait() has returned.
Joined ==
    /\ mainPC \notin PreJoin
    /\ mainPanic \notin {UnmarshalErr, TooLongMsg, ClientErr, CredentialsMsg, LoginErr}

AnyFile ==
    outputFile.exists \/ customRegistryFile.exists \/ nerdctlFile.exists

\* Number of positions of the sequence q that hold x.
Count(q, x) == Cardinality({ k \in 1..Len(q) : q[k] = x })

\* Number of workers whose record is x.
Owners(x) == Cardinality({ i \in 1..Len(workers) : RecordOf(workers[i]) = x })

\* Every worker ran to the end of its function: pull, tag and push returned
\* no error and the append was made.
AllSucceeded == \A i \in 1..Len(workers) : workers[i].pc = "returned"

\* C1: when all N dispatched workers succeed, the ledger after the join
\* holds exactly N records, one per worker, none lost and none duplicated,
\* under every interleaving of the appends.
C1_ExactlyOneRecordPerWorker ==
    (Joined /\ AllSucceeded) =>
        /\ Len(output) = Len(workers)
        /\ \A i \in 1..Len(workers) :
              Count(output, RecordOf(workers[i])) = Owners(RecordOf(workers[i]))

\* The states of a worker in which it has completed or failed.
Terminal == {"completed", "returned", "panicking", "fatal"}

\* C2: main() is past the join (the empty check, file creation, script
\* generation) only when every non-empty entry has a worker and every
\* worker is in a terminal state; no file exists while a worker is still
\* pending, pulling, tagging or pushing.
C2_FullJoin ==
    (Joined \/ AnyFile) =>
        /\ idx > Len(content)
        /\ \A i \in 1..Len(workers) : workers[i].pc \in Terminal

\* C2 witness: the base script is being generated after two workers
\* were joined.
C2_Witness ==
    /\ mainPC = "execOutput"
    /\ Len(workers) = 2
    /\ \A i \in 1..Len(workers) : workers[i].pc = "returned"

\* A worker failed at the pull, tag or push stage.
AnyFailed == \E i \in 1..Len(workers) : workers[i].pc \in {"panicking", "fatal"}

\* C3: once a worker has failed, no output file is ever created, and the
\* process does not end as a successful run.
C3_NoArtifactAfterFailure ==
    AnyFailed => (~AnyFile /\ exit # "ok")

\* C4: a request over the maximum, or without username or password, fails
\* with no login, no worker and no registry call.
C4_ConfigErrorsFirst ==
    (Len(content) > maxContent \/ username = <<>> \/ password = <<>>) =>
        /\ loginCalls = 0
        /\ loginResult = "none"
        /\ workers = <<>>
        /\ idx = 1
        /\ mainPC \in {"unmarshal", "checkCount", "newClient", "checkCreds",
                       "panicked"}

\* C4 witness: the run has failed on a missing password, the count being
\* within the maximum, before any registry activity.
C4_Witness ==
    /\ mainPanic = CredentialsMsg
    /\ Len(content) <= maxContent
    /\ username # <<>>
    /\ password = <<>>
    /\ Len(content) > 0
    /\ loginCalls = 0
    /\ workers = <<>>

\* Number of non-empty entries of a hub-mirror list.
NonEmptyCount(list) == Cardinality({ i \in 1..Len(list) : list[i] # <<>> })

\* C5: a request whose non-empty entries are at most the maximum
\* is never rejected as too long, whatever empty entries it contains.
C5_EmptyEntriesNotCounted ==
    NonEmptyCount(content) <= maxContent => mainPanic # TooLongMsg

\* The workers and records of the entries the loop has passed: a worker per
\* non-empty entry and none for an empty one, and no record but a worker's.
EmptyEntriesHaveNoWorker ==
    /\ \A i \in 1..Len(workers) :
          /\ workers[i].entry \in 1..(idx - 1)
          /\ content[workers[i].entry] # <<>>
          /\ \A j \in 1..Len(workers) :
                i < j => workers[i].entry < workers[j].entry
    /\ Len(workers) = NonEmptyCount(SubSeq(content, 1, idx - 1))
    /\ wg <= Len(workers)
    /\ \A k \in 1..Len(output) :
          \E i \in 1..Len(workers) :
              /\ output[k] = RecordOf(workers[i])
              /\ workers[i].pc \in {"completed", "returned"}

\* The loop iteration over an empty entry.
SkipsEmptyEntry ==
    /\ mainPC = "dispatch"
    /\ idx <= Len(content)
    /\ content[idx] = <<>>
    /\ idx' = idx + 1

PastLogin ==
    /\ mainPC \notin {"unmarshal", "checkCount", "newClient", "checkCreds", "login"}
    /\ mainPanic \notin {UnmarshalErr, TooLongMsg, ClientErr, CredentialsMsg}

\* C7: RegistryLogin is called once and first; workers, and so pull, tag
\* and push, exist only after it returned successfully, and a login
\* failure ends the run with no transfer started.
C7_LoginOnceFirst ==
    /\ loginCalls <= 1
    /\ PastLogin => loginCalls = 1
    /\ (workers # <<>> \/ idx > 1 \/ Joined) => loginResult = "ok"
    /\ loginResult = "error" =>
          /\ mainPanic = LoginErr
          /\ workers = <<>>
          /\ ~AnyFile
          /\ exit # "ok"

\* C7 witness: the login was rejected for a request with a non-empty source.
C7_Witness ==
    /\ loginResult = "error"
    /\ loginCalls = 1
    /\ NonEmptyCount(content) > 0
    /\ exit = "panic"

\* C8: an empty ledger after the join is the "output is empty." failure and
\* leaves no file; no file is ever created from an empty ledger.
C8_EmptyLedgerFails ==
    /\ (Joined /\ mainPC # "checkEmpty" /\ Len(output) = 0) =>
          /\ mainPanic = EmptyMsg
          /\ ~AnyFile
          /\ exit # "ok"
    /\ AnyFile => Len(output) > 0

\* C8 witness: a list of empty entries only has ended in the empty-result
\* failure.
C8_Witness ==
    /\ mainPanic = EmptyMsg
    /\ Len(content) > 0
    /\ NonEmptyCount(content) = 0
    /\ exit = "panic"

\* The lines of a text: the pieces that end in a newline, without it.
RECURSIVE Lines(_)
Lines(text) ==
    LET i == Index(text, NL)
    IN  IF i = -1 THEN <<>>
        ELSE <<SubSeq(text, 1, i)>> \o Lines(SubSeq(text, i + 2, Len(text)))

\* The text ends where a line ends.
Terminated(text) == text = <<>> \/ text[Len(text)] = "\n"

\* The base template has been executed.
BaseWritten == outputFile.exists /\ mainPC # "execOutput"

BasePullLine(r) == DockerPull \o r.Target
BaseTagLine(r) == DockerTag \o r.Target \o SP \o r.Source

\* Lines 3k-2 and 3k-1 of the base script are the block of record k.
BaseBlocks(lines) ==
    \A k \in 1..Len(output) :
        /\ lines[3 * k - 2] = BasePullLine(output[k])
        /\ lines[3 * k - 1] = BaseTagLine(output[k])

\* C9 as stated: the base script is, per record in ledger order, the lines
\* 'docker pull <Target>' and 'docker tag <Target> <Source>', one blank line
\* between consecutive blocks and no leading or trailing blank line.
C9_BaseShapeNoTrailingBlank ==
    BaseWritten =>
        LET lines == Lines(outputFile.data)
        IN  /\ Terminated(outputFile.data)
            /\ Len(lines) = 3 * Len(output) - 1
            /\ BaseBlocks(lines)
            /\ \A k \in 1..(Len(output) - 1) : lines[3 * k] = <<>>

\* C9 as amended: the base script is, per record in ledger order, the lines
\* 'docker pull <Target>' and 'docker tag <Target> <Source>' followed by one
\* blank line: one blank line between consecutive blocks and one after the
\* last block, none before the first.
C9_BaseShapeBlankAfterEachBlock ==
    BaseWritten =>
        LET lines == Lines(outputFile.data)
        IN  /\ Terminated(outputFile.data)
            /\ Len(lines) = 3 * Len(output)
            /\ BaseBlocks(lines)
            /\ \A k \in 1..Len(output) : lines[3 * k] = <<>>

\* C9 witness: the base script of a ledger of two records has been written.
C9_Witness ==
    /\ BaseWritten
    /\ Len(output) = 2
    /\ output[1] # output[2]

\* The nerdctl template of the else branch has been executed.
NerdctlRanWithoutRegistry ==
    /\ customRegistry = <<>>
    /\ nerdctlFile.exists
    /\ mainPC # "execNerdctl"

\* C10: without a custom registry and with a non-empty ledger, script
\* generation succeeds and the nerdctl script holds, for each record,
\* 'nerdctl -n k8s.io pull <Target>' followed by
\* 'nerdctl -n k8s.io tag <Target> <Source>'.
C10_NerdctlWithoutRegistry ==
    NerdctlRanWithoutRegistry =>
        LET lines == Lines(nerdctlFile.data)
        IN  /\ mainPanic = ""
            /\ \A k \in 1..Len(output) :
                  \E j \in 1..(Len(lines) - 1) :
                      /\ lines[j] = NerdctlPull \o output[k].Target
                      /\ lines[j + 1] =
                            NerdctlTag \o output[k].Target \o SP \o output[k].Source

\* The custom-registry template has been executed.
CustomWritten == customRegistryFile.exists /\ mainPC # "execCustom"

\* <customRegistry>/<Source> of a record.
CustomPath(r) == customRegistry \o <<"/">> \o r.Source

\* Lines 3k-2 and 3k-1 of the custom-registry script are the block of
\* record k.
CustomBlocks(lines) ==
    \A k \in 1..Len(output) :
        /\ lines[3 * k - 2] =
              DockerTag \o output[k].Target \o SP \o CustomPath(output[k])
        /\ lines[3 * k - 1] = DockerPush \o CustomPath(output[k])

\* C11: the custom-registry script exists only for a non-empty custom
\* registry and ledger, exists once generation is past it in that case, and
\* holds per record, in ledger order, 'docker tag <Target>
\* <customRegistry>/<Source>' then 'docker push <customRegistry>/<Source>'.
C11_CustomRegistryArtifact ==
    /\ customRegistryFile.exists => (customRegistry # <<>> /\ Len(output) > 0)
    /\ (customRegistry # <<>> /\
        mainPC \in {"createNerdctlCustom", "execNerdctlCustom", "print", "returned"})
          => CustomWritten
    /\ CustomWritten =>
          LET lines == Lines(customRegistryFile.data)
          IN  /\ Terminated(customRegistryFile.data)
              /\ Len(lines) = 3 * Len(output)
              /\ CustomBlocks(lines)

\* C11 witness: the custom-registry script of a ledger of two records has
\* been written.
C11_Witness ==
    /\ CustomWritten
    /\ Len(output) = 2
    /\ output[1] # output[2]

\* The nerdctl template of the custom-registry branch has been executed.
NerdctlCustomWritten ==
    /\ customRegistry # <<>>
    /\ nerdctlFile.exists
    /\ mainPC # "execNerdctlCustom"

\* C12: with a custom registry the nerdctl script holds per record
\* 'nerdctl -n k8s.io pull <customRegistry>/<Source>' then 'nerdctl -n k8s.io
\* tag <customRegistry>/<Source> <Source>', block k being for the same
\* record as block k of the base and of the custom-registry script.
C12_NerdctlWithRegistry ==
    NerdctlCustomWritten =>
        LET lines == Lines(nerdctlFile.data)
        IN  /\ Len(lines) = 3 * Len(output)
            /\ \A k \in 1..Len(output) :
                  /\ lines[3 * k - 2] = NerdctlPull \o CustomPath(output[k])
                  /\ lines[3 * k - 1] =
                        NerdctlTag \o CustomPath(output[k]) \o SP \o output[k].Source
            /\ BaseBlocks(Lines(outputFile.data))
            /\ CustomBlocks(Lines(customRegistryFile.data))

\* C12 witness: the nerdctl script of a ledger of two records has been
\* written for a custom registry.
C12_Witness ==
    /\ NerdctlCustomWritten
    /\ Len(output) = 2
    /\ output[1] # output[2]
    /\ exit = "ok"

\* The offsets at which s holds "@sha256".
MarkerOffsets(s) ==
    { p \in 0..(Len(s) - 7) :
        /\ s[p + 1] = "@" /\ s[p + 2] = "s" /\ s[p + 3] = "h" /\ s[p + 4] = "a"
        /\ s[p + 5] = "2" /\ s[p + 6] = "5" /\ s[p + 7] = "6" }

\* s with the seven characters of its first "@sha256" cut out; s itself
\* when it holds none.
CutFirstMarker(s) ==
    IF MarkerOffsets(s) = {} THEN s
    ELSE LET p == CHOOSE q \in MarkerOffsets(s) : \A o \in MarkerOffsets(s) : q <= o
         IN  [ j \in 1..(Len(s) - 7) |-> IF j <= p THEN s[j] ELSE s[j + 7] ]

\* Block k of the custom-registry script is keyed by `path` for a worker
\* that produced record k.
CustomKeyedBy(lines, k, i, path) ==
    /\ output[k] = RecordOf(workers[i])
    /\ lines[3 * k - 2] =
          DockerTag \o output[k].Target \o SP \o customRegistry \o <<"/">> \o path
    /\ lines[3 * k - 1] = DockerPush \o customRegistry \o <<"/">> \o path

\* C13 as stated: in the custom-registry script the path after
\* '<customRegistry>/' is, for every record, the source reference exactly
\* as it appeared in the request, digest-qualified sources included.
C13_KeyedByRequestSource ==
    CustomWritten =>
        \A k \in 1..Len(output) :
            \E i \in 1..Len(workers) :
                CustomKeyedBy(Lines(customRegistryFile.data), k, i,
                              content[workers[i].entry])

\* C13 as amended: the path after '<customRegistry>/' is the record's
\* Source: the request's source reference with its first '@sha256' removed,
\* which is the unmodified reference for a source without the marker.
C13_KeyedByCleanedSource ==
    CustomWritten =>
        \A k \in 1..Len(output) :
            \E i \in 1..Len(workers) :
                CustomKeyedBy(Lines(customRegistryFile.data), k, i,
                              CutFirstMarker(content[workers[i].entry]))

\* C13 witness: the custom-registry script has been written for a ledger
\* that holds the record of a digest-qualified source.
C13_Witness ==
    /\ CustomWritten
    /\ \E i \in 1..Len(workers) :
          /\ MarkerOffsets(content[workers[i].entry]) # {}
          /\ \E k \in 1..Len(output) : output[k] = RecordOf(workers[i])

\* s with every "/" turned into ".", character by character.
Flat(s) == [ j \in 1..Len(s) |-> IF s[j] = "/" THEN "." ELSE s[j] ]

\* C14: the target of every worker is the namespace, "/" and the (possibly
\* cleaned) source with each "/" replaced by "."; nothing after the
\* namespace prefix is a "/"; the target is this function of the request's
\* source and the namespace alone.
C14_NameFlattening ==
    \A i \in 1..Len(workers) :
        LET w == workers[i]
            prefix == Len(username) + 1
        IN  /\ w.source = CutFirstMarker(content[w.entry])
            /\ w.target = username \o <<"/">> \o Flat(w.source)
            /\ Len(w.target) = prefix + Len(w.source)
            /\ \A j \in (prefix + 1)..Len(w.target) : w.target[j] # "/"

\* C14 witness: a worker was started for a source with two path separators.
C14_Witness ==
    \E i \in 1..Len(workers) :
        /\ content[workers[i].entry] = <<"/", "a", "/">>
        /\ username = <<"a", "l">>
        /\ workers[i].target = <<"a", "l", "/", ".", "a", ".">>

\* The workers started for a source that holds the digest marker.
DigestWorkers ==
    { i \in 1..Len(workers) : MarkerOffsets(content[workers[i].entry]) # {} }

\* C15 as stated: for a source that holds '@sha256', neither the cleaned
\* source nor the target holds the marker anywhere, and the text around the
\* marker is kept.
C15_NoMarkerLeft ==
    \A i \in DigestWorkers :
        /\ MarkerOffsets(workers[i].source) = {}
        /\ MarkerOffsets(workers[i].target) = {}
        /\ workers[i].source = CutFirstMarker(content[workers[i].entry])

\* C15 as amended: for a source that holds '@sha256', the first occurrence
\* of the marker is removed and the text before and after it is kept; the
\* target is derived from that cleaned source, and holds the marker only if
\* the cleaned source still does.
C15_FirstMarkerRemoved ==
    \A i \in DigestWorkers :
        LET w == workers[i]
            src == content[w.entry]
            p == CHOOSE q \in MarkerOffsets(src) : \A o \in MarkerOffsets(src) : q <= o
        IN  /\ Len(w.source) = Len(src) - 7
            /\ SubSeq(w.source, 1, p) = SubSeq(src, 1, p)
            /\ SubSeq(w.source, p + 1, Len(w.source)) = SubSeq(src, p + 8, Len(src))
            /\ w.target = username \o <<"/">> \o Flat(w.source)
            /\ MarkerOffsets(w.source) = {} => MarkerOffsets(w.target) = {}

\* C15 witness: a worker was started for a source that holds the marker
\* twice, and its cleaned source still holds one.
C15_Witness ==
    \E i \in DigestWorkers :
        /\ Cardinality(MarkerOffsets(content[workers[i].entry])) = 2
        /\ MarkerOffsets(workers[i].source) # {}

\* The workers that have made their append.
Inserted(x) ==
    { i \in 1..Len(workers) :
        /\ RecordOf(workers[i]) = x
        /\ workers[i].pc \in {"completed", "returned"} }

StageSteps ==
    { <<"start", "pulled">>, <<"pulled", "tagged">>, <<"tagged", "pushed">>,
      <<"pushed", "loaded">>, <<"loaded", "completed">>,
      <<"completed", "returned">>,
      <<"start", "panicking">>, <<"pulled", "panicking">>,
      <<"tagged", "panicking">>, <<"panicking", "fatal">> }

\* The calls a worker has made, by its position: pull, then tag, then push,
\* each made only after the one before returned without error, and none
\* after a failed one.
StagesInOrder ==
    \A i \in 1..Len(workers) :
        LET w == workers[i]
        IN  /\ \E n \in 0..3 : w.calls = SubSeq(<<"pull", "tag", "push">>, 1, n)
            /\ w.pc = "start" => w.calls = <<>>
            /\ w.pc = "pulled" => w.calls = <<"pull">>
            /\ w.pc = "tagged" => w.calls = <<"pull", "tag">>
            /\ w.pc \in {"pushed", "loaded", "completed", "returned"} =>
                  w.calls = <<"pull", "tag", "push">>
            /\ w.failed # "" <=> w.pc \in {"panicking", "fatal"}
            /\ w.failed # "" => (w.calls # <<>> /\ w.calls[Len(w.calls)] = w.failed)

\* C17: a worker moves only along start, pulled, tagged, pushed, (insert),
\* completed, or to the failed positions from a registry call; tag comes
\* after a successful pull and push after a successful tag; a failed worker
\* makes no further call and no insert.
C17_StageOrdering ==
    /\ []StagesInOrder
    /\ [][\A i \in 1..Len(workers) :
             /\ \/ workers'[i].pc = workers[i].pc
                \/ <<workers[i].pc, workers'[i].pc>> \in StageSteps
             /\ workers[i].failed # "" =>
                   /\ workers'[i].calls = workers[i].calls
                   /\ workers'[i].failed = workers[i].failed
                   /\ workers'[i].pc \in {"panicking", "fatal"}]_vars

\* C17 witness: a worker failed at the tag stage after a successful pull,
\* next to one that completed.
C17_Witness ==
    \E i, j \in 1..Len(workers) :
        /\ workers[i].pc = "fatal"
        /\ workers[i].calls = <<"pull", "tag">>
        /\ workers[i].failed = "tag"
        /\ workers[j].pc = "returned"

\* The workers that have not yet signalled their completion.
Unsignalled ==
    { i \in 1..Len(workers) : workers[i].pc \notin {"returned", "fatal"} }

\* C18: under fair scheduling every run ends, with the scripts generated or
\* in a failure; the completion counter is at every moment the number of
\* started workers that have not signalled, a step lowers it by exactly one
\* and only as a worker leaves its success or its failure path, and the
\* join is passed only at zero.
C18_Termination ==
    /\ <>(exit # "running")
    /\ [](exit = "ok" => (mainPC = "returned" /\ outputFile.exists /\ nerdctlFile.exists))
    /\ [](exit = "panic" =>
             (mainPC = "panicked" \/ \E i \in 1..Len(workers) : workers[i].pc = "fatal"))
    /\ [](wg = Cardinality(Unsignalled))
    /\ [][/\ wg' # wg =>
               \/ /\ wg' = wg + 1
                  /\ Len(workers') = Len(workers) + 1
               \/ /\ wg' = wg - 1
                  /\ \E i \in Unsignalled :
                        /\ workers[i].pc \in {"completed", "panicking"}
                        /\ workers'[i].pc \in {"returned", "fatal"}
          /\ (mainPC = "dispatch" /\ mainPC' = "checkEmpty") => wg = 0]_vars

\* C18 witness: a run has ended with its scripts after the join waited for
\* two workers.
C18_Witness ==
    /\ exit = "ok"
    /\ Len(workers) = 2
    /\ \A i \in 1..2 : workers[i].pc = "returned"
    /\ wg = 0

====
